---- MODULE Spec2Model ----
(***************************************************************************)
(* A model of joy.py: the shape tree, the transformation algebra and the   *)
(* SVG renderer.                                                           *)
(*                                                                         *)
(* Python values are tagged records ([type |-> ...]).  A Shape is an       *)
(* object on a heap (a sequence of records, the index is the identity);    *)
(* a Transformation is never written to after its constructor returns and  *)
(* is modelled by its value.  Text is a sequence of one-character strings, *)
(* so that str(), html.escape(), str.replace() and str.join() are          *)
(* computed character by character as the library computes them.           *)
(***************************************************************************)
EXTENDS Integers, Sequences, FiniteSets

VARIABLES heap, last, nops

vars == <<heap, last, nops>>

(***************************************************************************)
(* Bounds of the model.                                                    *)
(***************************************************************************)
\* The number of library calls a session makes after its initial shapes.
MaxOps == 1

(***************************************************************************)
(* Python values.                                                          *)
(***************************************************************************)
None == [type |-> "None"]
NotImplemented == [type |-> "NotImplemented"]
PyInt(v) == [type |-> "int", v |-> v]
PyStr(chars) == [type |-> "str", s |-> chars]
Ref(id) == [type |-> "Shape", id |-> id]
Exc(name) == [type |-> "Exception", name |-> name]
PyList(items) == [type |-> "list", items |-> items]
PyTuple(items) == [type |-> "tuple", items |-> items]
PyDict(d) == [type |-> "dict", d |-> d]

IsExc(v) == v.type = "Exception"
IsShape(v) == v.type = "Shape"
IsTransformation(v) ==
    v.type \in {"Translate", "Rotate", "Scale", "TransformationList", "Repeat", "Cycle"}
IsNumber(v) == v.type \in {"int", "float"}

(***************************************************************************)
(* Numbers.  An int is exact; a float is kept as the reduced fraction n/d  *)
(* it equals (the inputs of the model only produce floats that binary      *)
(* floating point represents exactly, or whose repr is the short decimal). *)
(***************************************************************************)
RECURSIVE GCD(_, _)
GCD(a, b) == IF b = 0 THEN a ELSE GCD(b, a % b)

Abs(a) == IF a < 0 THEN -a ELSE a

PyFloat(n, d) ==
    LET g == GCD(Abs(n), Abs(d))
        sgn == IF d < 0 THEN -1 ELSE 1
    IN  [type |-> "float", n |-> sgn * (n \div g), d |-> sgn * (d \div g)]

NumN(a) == IF a.type = "int" THEN a.v ELSE a.n
NumD(a) == IF a.type = "int" THEN 1 ELSE a.d

\* a == b on numbers
NumEq(a, b) == NumN(a) * NumD(b) = NumN(b) * NumD(a)

\* a / b
TrueDiv(a, b) ==
    IF NumN(b) = 0 THEN Exc("ZeroDivisionError")
    ELSE PyFloat(NumN(a) * NumD(b), NumD(a) * NumN(b))

\* a // b
FloorDiv(a, b) ==
    IF NumN(b) = 0 THEN Exc("ZeroDivisionError")
    ELSE LET n == NumN(a) * NumD(b)
             d == NumD(a) * NumN(b)
             q == IF d > 0 THEN n \div d ELSE (-n) \div (-d)
         IN  IF a.type = "int" /\ b.type = "int" THEN PyInt(q) ELSE PyFloat(q, 1)

\* a * b
Mul(a, b) ==
    IF a.type = "int" /\ b.type = "int" THEN PyInt(a.v * b.v)
    ELSE PyFloat(NumN(a) * NumN(b), NumD(a) * NumD(b))

\* a - b
Sub(a, b) ==
    IF a.type = "int" /\ b.type = "int" THEN PyInt(a.v - b.v)
    ELSE PyFloat(NumN(a) * NumD(b) - NumN(b) * NumD(a), NumD(a) * NumD(b))

\* a + b on numbers
NumAdd(a, b) ==
    IF a.type = "int" /\ b.type = "int" THEN PyInt(a.v + b.v)
    ELSE PyFloat(NumN(a) * NumD(b) + NumN(b) * NumD(a), NumD(a) * NumD(b))

\* a | b on ints: the bitwise or of the two's complement digits
RECURSIVE IntOr(_, _)
IntOr(a, b) ==
    IF a = 0 THEN b
    ELSE IF b = 0 THEN a
    ELSE IF a = -1 \/ b = -1 THEN -1
    ELSE 2 * IntOr(a \div 2, b \div 2) + (IF a % 2 = 1 \/ b % 2 = 1 THEN 1 ELSE 0)

RECURSIVE IntPow(_, _)
IntPow(b, e) == IF e = 0 THEN 1 ELSE b * IntPow(b, e - 1)

\* a ** i for an int i >= 0
Pow(a, i) ==
    IF a.type = "int" THEN PyInt(IntPow(a.v, i))
    ELSE PyFloat(IntPow(a.n, i), IntPow(a.d, i))

(***************************************************************************)
(* Text.                                                                   *)
(***************************************************************************)
Digit(k) == SubSeq(<<"0", "1", "2", "3", "4", "5", "6", "7", "8", "9">>, k + 1, k + 1)

RECURSIVE NatStr(_)
NatStr(k) == IF k < 10 THEN Digit(k) ELSE NatStr(k \div 10) \o Digit(k % 10)

IntStr(v) == IF v < 0 THEN <<"-">> \o NatStr(-v) ELSE NatStr(v)

\* The digits after the point of rem/d, for a fraction whose expansion ends.
RECURSIVE FracStr(_, _)
FracStr(rem, d) ==
    IF rem = 0 THEN <<>>
    ELSE Digit((rem * 10) \div d) \o FracStr((rem * 10) % d, d)

FloatStr(n, d) ==
    LET a == Abs(n)
        frac == FracStr(a % d, d)
    IN  (IF n < 0 THEN <<"-">> ELSE <<>>) \o NatStr(a \div d) \o <<".">>
            \o (IF frac = <<>> THEN <<"0">> ELSE frac)

\* str(v) for the values attributes hold
StrOf(v) ==
    CASE v.type = "int" -> IntStr(v.v)
      [] v.type = "float" -> FloatStr(v.n, v.d)
      [] v.type = "str" -> v.s
      [] v.type = "None" -> <<"N", "o", "n", "e">>

RECURSIVE Concat(_)
Concat(ss) ==
    IF ss = <<>> THEN <<>>
    ELSE IF Len(ss) = 1 THEN ss[1]
    ELSE LET mid == Len(ss) \div 2
         IN  Concat(SubSeq(ss, 1, mid)) \o Concat(SubSeq(ss, mid + 1, Len(ss)))

\* sep.join(ss)
StrJoin(sep, ss) ==
    Concat([i \in 1..Len(ss) |-> IF i = 1 THEN ss[i] ELSE sep \o ss[i]])

\* s.replace(old, new) for a one-character old
Replace(s, old, new) == Concat([i \in 1..Len(s) |-> IF s[i] = old THEN new ELSE <<s[i]>>])

\* html.escape(s), quote=True
HtmlEscapeChar(c) ==
    CASE c = "&" -> <<"&", "a", "m", "p", ";">>
      [] c = "<" -> <<"&", "l", "t", ";">>
      [] c = ">" -> <<"&", "g", "t", ";">>
      [] c = "\"" -> <<"&", "q", "u", "o", "t", ";">>
      [] c = "'" -> <<"&", "#", "x", "2", "7", ";">>
      [] OTHER -> <<c>>

HtmlEscape(s) == Concat([i \in 1..Len(s) |-> HtmlEscapeChar(s[i])])

(***************************************************************************)
(* Point and the Transformation classes.                                   *)
(***************************************************************************)
Point(x, y) == [type |-> "Point", x |-> x, y |-> y]

\* Point.__eq__
PointEq(self, p) == p.type = "Point" /\ NumEq(p.x, self.x) /\ NumEq(p.y, self.y)

Translate(x, y) == [type |-> "Translate", x |-> x, y |-> y]

Rotate(angle, anchor) == [type |-> "Rotate", angle |-> angle, anchor |-> anchor]

Scale(sx, sy) == [type |-> "Scale", sx |-> sx, sy |-> IF sy = None THEN sx ELSE sy]

TransformationList(transformations) ==
    [type |-> "TransformationList", transformations |-> transformations]

Repeat(n, transformation) == [type |-> "Repeat", n |-> n, transformation |-> transformation]

\* Cycle.__init__: the value, or the exception the division raises
Cycle(n, anchor, s, angle) ==
    LET a == IF angle # None THEN angle ELSE TrueDiv(PyInt(360), n)
    IN  IF IsExc(a) THEN a
        ELSE [type |-> "Cycle", n |-> n, angle |-> a, anchor |-> anchor, s |-> s]

\* The first exception of a sequence of results, None when there is none.
FirstExc(rs) ==
    IF \E i \in 1..Len(rs) : IsExc(rs[i])
    THEN rs[CHOOSE i \in 1..Len(rs) : IsExc(rs[i]) /\ \A j \in 1..(i - 1) : ~IsExc(rs[j])]
    ELSE None

\* t.as_str(): a str, or AttributeError for a class that has no as_str
RECURSIVE as_str(_)
as_str(t) ==
    CASE t.type = "Translate" ->
            PyStr(<<"t", "r", "a", "n", "s", "l", "a", "t", "e", "(">>
                  \o StrOf(t.x) \o <<" ">> \o StrOf(t.y) \o <<")">>)
      [] t.type = "Rotate" ->
            IF PointEq(t.anchor, Point(PyInt(0), PyInt(0)))
            THEN PyStr(<<"r", "o", "t", "a", "t", "e", "(">> \o StrOf(t.angle) \o <<")">>)
            ELSE PyStr(<<"r", "o", "t", "a", "t", "e", "(">> \o StrOf(t.angle) \o <<" ">>
                       \o StrOf(t.anchor.x) \o <<" ">> \o StrOf(t.anchor.y) \o <<")">>)
      [] t.type = "Scale" ->
            PyStr(<<"s", "c", "a", "l", "e", "(">>
                  \o StrOf(t.sx) \o <<" ">> \o StrOf(t.sy) \o <<")">>)
      [] t.type = "TransformationList" ->
            LET parts == [i \in 1..Len(t.transformations) |-> as_str(t.transformations[i])]
            IN  IF FirstExc(parts) # None THEN FirstExc(parts)
                ELSE PyStr(StrJoin(<<" ">>, [i \in 1..Len(parts) |-> parts[i].s]))
      [] OTHER -> Exc("AttributeError")

\* join with the new transformation put first
join_prepend(self, transformation) ==
    IF self.type = "TransformationList"
    THEN TransformationList(<<transformation>> \o self.transformations)
    ELSE TransformationList(<<transformation, self>>)

\* Transformation.join and TransformationList.join
join(self, transformation) ==
    IF self.type = "TransformationList"
    THEN TransformationList(self.transformations \o <<transformation>>)
    ELSE TransformationList(<<self, transformation>>)

\* Transformation.__or__
Transformation__or__(self, right) ==
    IF ~IsTransformation(right) THEN NotImplemented ELSE join(self, right)

(***************************************************************************)
(* Shape objects.  An operation that allocates takes the heap and returns  *)
(* [h |-> the heap after it, v |-> its value or the exception it raised].  *)
(***************************************************************************)
Ret(h, v) == [h |-> h, v |-> v]

Keys(d) == {d[i][1] : i \in 1..Len(d)}

DictGet(d, k) == d[CHOOSE i \in 1..Len(d) : d[i][1] = k][2]

\* d[k] = v on an insertion-ordered dict
DictSet(d, k, v) ==
    IF k \in Keys(d) THEN [i \in 1..Len(d) |-> IF d[i][1] = k THEN <<k, v>> ELSE d[i]]
    ELSE Append(d, <<k, v>>)

RECURSIVE DictWithout(_, _)
DictWithout(d, ks) ==
    IF d = <<>> THEN <<>>
    ELSE IF Head(d)[1] \in ks THEN DictWithout(Tail(d), ks)
    ELSE <<Head(d)>> \o DictWithout(Tail(d), ks)

\* Shape.__init__(self, tag, children=None, transform=None, **attrs) as the
\* subclasses call it: keywords are the keyword arguments the call site writes
\* out, kwargs the caller's **kwargs.  Binding raises TypeError when kwargs
\* repeats a written keyword or names the positional tag; the transform
\* parameter is bound and not stored.
Shape__init__(cls, own, tag, keywords, kwargs) ==
    LET S_tag == <<"t", "a", "g">>
        S_children == <<"c", "h", "i", "l", "d", "r", "e", "n">>
        S_transform == <<"t", "r", "a", "n", "s", "f", "o", "r", "m">>
        passed == keywords \o kwargs
        children == IF S_children \in Keys(passed) THEN DictGet(passed, S_children) ELSE None
    IN  IF Keys(kwargs) \cap (Keys(keywords) \cup {S_tag}) # {}
        THEN Exc("TypeError")
        ELSE [type |-> "object", cls |-> cls, own |-> own, tag |-> tag, children |-> children,
              attrs |-> DictWithout(passed, {S_children, S_transform}),
              transform |-> None]

Circle(center, radius, kwargs) ==
    Shape__init__("Circle", <<center, radius>>, <<"c", "i", "r", "c", "l", "e">>,
        << <<(<<"c", "x">>), center.x>>, <<(<<"c", "y">>), center.y>>, <<(<<"r">>), radius>> >>,
        kwargs)

Ellipse(center, width, height, kwargs) ==
    Shape__init__("Ellipse", <<center, width, height>>, <<"e", "l", "l", "i", "p", "s", "e">>,
        << <<(<<"c", "x">>), center.x>>, <<(<<"c", "y">>), center.y>>,
           <<(<<"r", "x">>), TrueDiv(width, PyInt(2))>>,
           <<(<<"r", "y">>), TrueDiv(height, PyInt(2))>> >>,
        kwargs)

Rectangle(center, width, height, kwargs) ==
    Shape__init__("Rectangle", <<center, width, height>>, <<"r", "e", "c", "t">>,
        << <<(<<"x">>), Sub(center.x, TrueDiv(width, PyInt(2)))>>,
           <<(<<"y">>), Sub(center.y, TrueDiv(height, PyInt(2)))>>,
           <<(<<"w", "i", "d", "t", "h">>), width>>,
           <<(<<"h", "e", "i", "g", "h", "t">>), height>> >>,
        kwargs)

Line(start, end, kwargs) ==
    Shape__init__("Line", <<start, end>>, <<"l", "i", "n", "e">>,
        << <<(<<"x", "1">>), start.x>>, <<(<<"y", "1">>), start.y>>,
           <<(<<"x", "2">>), end.x>>, <<(<<"y", "2">>), end.y>> >>,
        kwargs)

\* Group.__init__: shapes is a Python list or tuple of values
Group(shapes, kwargs) ==
    Shape__init__("Group", <<>>, <<"g">>,
        << <<(<<"c", "h", "i", "l", "d", "r", "e", "n">>), shapes>> >>,
        kwargs)

\* A constructor call: the new object is allocated unless __init__ raised.
New(h, obj) == IF IsExc(obj) THEN Ret(h, obj) ELSE Ret(Append(h, obj), Ref(Len(h) + 1))

\* Shape.clone: a new object with the same __dict__
clone(h, id) == Ret(Append(h, h[id]), Ref(Len(h) + 1))

RECURSIVE apply(_, _, _)
RECURSIVE BinOr(_, _, _)

\* apply_transform without the clone: the transform is written to the operand
apply_transform_in_place(h, id, transform) ==
    LET t == IF h[id].transform # None THEN BinOr(h, h[id].transform, transform).v
             ELSE transform
    IN  IF IsExc(t) THEN Ret(h, t)
        ELSE Ret([h EXCEPT ![id].transform = t], Ref(id))

\* Shape.apply_transform
apply_transform(h, id, transform) ==
    LET t == IF h[id].transform # None THEN BinOr(h, h[id].transform, transform).v
             ELSE transform
        c == clone(h, id)
    IN  IF IsExc(t) THEN Ret(h, t)
        ELSE Ret([c.h EXCEPT ![c.v.id].transform = t], c.v)

\* Transformation.__ror__
Transformation__ror__(h, self, left) ==
    IF ~IsShape(left) THEN Ret(h, NotImplemented) ELSE apply(h, self, left)

\* The expression a | b: type(a).__or__ when the class has one, then the
\* reflected type(b).__ror__.  Shape defines neither; int defines both, for
\* an int on the other side only; float defines neither.
BinOr(h, a, b) ==
    LET first == IF IsTransformation(a) THEN Transformation__or__(a, b)
                 ELSE IF a.type = "int" /\ b.type = "int" THEN PyInt(IntOr(a.v, b.v))
                 ELSE NotImplemented
        second == IF IsTransformation(b) THEN Transformation__ror__(h, b, a)
                  ELSE Ret(h, NotImplemented)
    IN  IF first # NotImplemented THEN Ret(h, first)
        ELSE IF second.v # NotImplemented THEN second
        ELSE Ret(h, Exc("TypeError"))

\* The loop of Repeat.apply: k iterations are left, shapes is the list so far.
RECURSIVE RepeatLoop(_, _, _, _, _)
RepeatLoop(h, transformation, shape, shapes, k) ==
    IF k <= 0 THEN Ret(h, PyList(shapes))
    ELSE LET r == IF IsTransformation(transformation) THEN apply(h, transformation, shape)
                  ELSE Ret(h, Exc("AttributeError"))
         IN  IF IsExc(r.v) THEN r
             ELSE RepeatLoop(r.h, transformation, r.v, Append(shapes, r.v), k - 1)

\* The first comprehension of Cycle.apply with the angles counted from 1
RECURSIVE CycleRotate_from_one(_, _, _, _, _)
CycleRotate_from_one(h, self, shape, shapes, i) ==
    IF i >= self.n.v THEN Ret(h, PyList(shapes))
    ELSE LET r == BinOr(h, shape, Rotate(Mul(PyInt(i + 1), self.angle), self.anchor))
         IN  IF IsExc(r.v) THEN r
             ELSE CycleRotate_from_one(r.h, self, shape, Append(shapes, r.v), i + 1)

\* The first comprehension of Cycle.apply, for i in i..n-1
RECURSIVE CycleRotate(_, _, _, _, _)
CycleRotate(h, self, shape, shapes, i) ==
    IF i >= self.n.v THEN Ret(h, PyList(shapes))
    ELSE LET r == BinOr(h, shape, Rotate(Mul(PyInt(i), self.angle), self.anchor))
         IN  IF IsExc(r.v) THEN r
             ELSE CycleRotate(r.h, self, shape, Append(shapes, r.v), i + 1)

\* The second comprehension of Cycle.apply, over enumerate(shapes) from index i
RECURSIVE CycleScale(_, _, _, _, _)
CycleScale(h, self, shapes, scaled, i) ==
    IF i >= Len(shapes) THEN Ret(h, PyList(scaled))
    ELSE LET r == BinOr(h, shapes[i + 1], Scale(Pow(self.s, i), None))
         IN  IF IsExc(r.v) THEN r
             ELSE CycleScale(r.h, self, shapes, Append(scaled, r.v), i + 1)

\* Repeat.apply with one iteration too many
RepeatApply_once_more(h, self, shape) ==
    LET r == RepeatLoop(h, self.transformation, shape, <<shape>>, self.n.v)
    IN  IF IsExc(r.v) THEN r ELSE New(r.h, Group(r.v, <<>>))

\* Repeat.apply
RepeatApply(h, self, shape) ==
    LET r == RepeatLoop(h, self.transformation, shape, <<shape>>, self.n.v - 1)
    IN  IF IsExc(r.v) THEN r ELSE New(r.h, Group(r.v, <<>>))

\* Cycle.apply
CycleApply(h, self, shape) ==
    LET r == CycleRotate(h, self, shape, <<>>, 0)
        q == IF IsExc(r.v) \/ self.s = None THEN r ELSE CycleScale(r.h, self, r.v.items, <<>>, 0)
    IN  IF IsExc(q.v) THEN q ELSE New(q.h, Group(q.v, <<>>))

\* t.apply(shape): Transformation.apply unless the class overrides it
apply(h, self, shape) ==
    CASE self.type = "Repeat" -> RepeatApply(h, self, shape)
      [] self.type = "Cycle" -> CycleApply(h, self, shape)
      [] OTHER -> apply_transform(h, shape.id, self)

\* Shape.__add__
Shape__add__(h, self, shape) ==
    IF ~IsShape(shape) THEN Ret(h, NotImplemented)
    ELSE New(h, Group(PyList(<<self, shape>>), <<>>))

\* The expression a + b: type(a).__add__, then the reflected type(b).__radd__.
\* Shape defines __add__ and no __radd__, a Transformation defines neither,
\* and the numbers define both for a number on the other side only.
BinAdd(h, a, b) ==
    LET first == IF IsShape(a) THEN Shape__add__(h, a, b)
                 ELSE IF IsNumber(a) /\ IsNumber(b) THEN Ret(h, NumAdd(a, b))
                 ELSE Ret(h, NotImplemented)
    IN  IF first.v # NotImplemented THEN first ELSE Ret(h, Exc("TypeError"))

\* combine(*shapes): shapes is the tuple of the arguments
combine(h, shapes) == New(h, Group(PyTuple(shapes), <<>>))

(***************************************************************************)
(* Rendering.                                                              *)
(***************************************************************************)
\* Shape.get_attrs: the dict, or the exception as_str() raised
get_attrs(self) ==
    LET s == as_str(self.transform)
    IN  IF self.transform = None THEN PyDict(self.attrs)
        ELSE IF IsExc(s) THEN s
        ELSE PyDict(DictSet(self.attrs, <<"t", "r", "a", "n", "s", "f", "o", "r", "m">>, s))

\* The list `items` of render_tag without the test for None
TagItems_with_None(attrs) ==
    [i \in 1..Len(attrs) |->
        <<Replace(attrs[i][1], "_", <<"-">>), HtmlEscape(StrOf(attrs[i][2]))>>]

\* The list `items` of render_tag
TagItems(attrs) ==
    LET kept == SelectSeq(attrs, LAMBDA kv : kv[2] # None)
    IN  [i \in 1..Len(kept) |->
            <<Replace(kept[i][1], "_", <<"-">>), HtmlEscape(StrOf(kept[i][2]))>>]

\* render_tag(tag, close=close, **attrs)
render_tag(tag, close, attrs) ==
    LET end == IF close THEN <<" ", "/", ">">> ELSE <<">">>
        items == TagItems(attrs)
        attrs_text == StrJoin(<<" ">>,
            [i \in 1..Len(items) |-> items[i][1] \o <<"=", "\"">> \o items[i][2] \o <<"\"">>])
    IN  IF attrs # <<>> THEN <<"<">> \o tag \o <<" ">> \o attrs_text \o end
        ELSE <<"<">> \o tag \o end

\* The call render_tag(self.tag, **attrs, close=...) of Shape._svg: an attribute
\* named like a parameter of render_tag is given twice.
CallRenderTag(tag, attrs, close) ==
    IF Keys(attrs) \cap {<<"t", "a", "g">>, <<"c", "l", "o", "s", "e">>} # {}
    THEN Exc("TypeError")
    ELSE PyStr(render_tag(tag, close, attrs))

\* The join of the children's results taken last child first
JoinResults_reversed(rs) ==
    IF FirstExc(rs) # None THEN FirstExc(rs)
    ELSE PyStr(Concat([i \in 1..Len(rs) |-> rs[Len(rs) + 1 - i].s]))

\* "".join(c._svg(indent) for c in children) given each child's result
JoinResults(rs) ==
    IF FirstExc(rs) # None THEN FirstExc(rs)
    ELSE PyStr(Concat([i \in 1..Len(rs) |-> rs[i].s]))

\* bool(self.children)
HasChildren(self) == self.children # None /\ self.children.items # <<>>

\* node._svg(indent); node is any value found where a Shape is expected
RECURSIVE _svg(_, _, _)
_svg(h, node, indent) ==
    IF ~IsShape(node) THEN Exc("AttributeError")
    ELSE LET self == h[node.id]
             attrs == get_attrs(self)
             tag_text == CallRenderTag(self.tag, attrs.d, ~HasChildren(self))
             inner == JoinResults([i \in 1..Len(self.children.items) |->
                                     _svg(h, self.children.items[i], indent \o <<" ", " ">>)])
         IN  IF IsExc(attrs) THEN attrs
             ELSE IF IsExc(tag_text) THEN tag_text
             ELSE IF HasChildren(self)
             THEN IF IsExc(inner) THEN inner
                  ELSE PyStr(indent \o tag_text.s \o <<"\n">> \o inner.s
                             \o indent \o <<"<", "/">> \o self.tag \o <<">", "\n">>)
             ELSE PyStr(indent \o tag_text.s \o <<"\n">>)

\* SVG(nodes, width, height).render()
SVG_render(h, nodes, width, height) ==
    LET viewBox == <<"-">> \o StrOf(FloorDiv(width, PyInt(2))) \o <<" ", "-">>
                   \o StrOf(FloorDiv(height, PyInt(2))) \o <<" ">> \o StrOf(width)
                   \o <<" ">> \o StrOf(height)
        svg_header == render_tag(<<"s", "v", "g">>, FALSE,
            << <<(<<"w", "i", "d", "t", "h">>), width>>,
               <<(<<"h", "e", "i", "g", "h", "t">>), height>>,
               <<(<<"v", "i", "e", "w", "B", "o", "x">>), PyStr(viewBox)>>,
               <<(<<"f", "i", "l", "l">>), PyStr(<<"n", "o", "n", "e">>)>>,
               <<(<<"s", "t", "r", "o", "k", "e">>), PyStr(<<"b", "l", "a", "c", "k">>)>>,
               <<(<<"x", "m", "l", "n", "s">>),
                 PyStr(<<"h", "t", "t", "p", ":", "/", "/", "w", "w", "w", ".", "w", "3", ".",
                         "o", "r", "g", "/", "2", "0", "0", "0", "/", "s", "v", "g">>)>> >>)
            \o <<"\n">>
        svg_footer == <<"<", "/", "s", "v", "g", ">", "\n">>
        body == JoinResults([i \in 1..Len(nodes) |-> _svg(h, nodes[i], <<" ", " ">>)])
    IN  IF IsExc(body) THEN body ELSE PyStr(svg_header \o body.s \o svg_footer)

\* Shape.as_svg(width, height)
as_svg(h, id, width, height) == SVG_render(h, <<Ref(id)>>, width, height)

(***************************************************************************)
(* The inputs of a session.                                                *)
(***************************************************************************)
Origin == Point(PyInt(0), PyInt(0))

\* The **kwargs a shape is constructed with: no extra attribute, ordinary
\* presentation attributes, an attribute whose value is None, a value with
\* reserved characters, and names that are parameters of Shape.__init__ and
\* of render_tag.
KwargsInputs ==
    { <<>>,
      << <<(<<"s", "t", "r", "o", "k", "e">>), PyStr(<<"r", "e", "d">>)>> >>,
      << <<(<<"s", "t", "r", "o", "k", "e", "_", "w", "i", "d", "t", "h">>), PyInt(2)>>,
         <<(<<"f", "i", "l", "l">>), None>> >>,
      << <<(<<"f", "i", "l", "l">>), None>> >>,
      << <<(<<"t", "i", "t", "l", "e">>), PyStr(<<"a", "<", "b", "&", "\"", "'">>)>> >>,
      << <<(<<"t", "r", "a", "n", "s", "f", "o", "r", "m">>),
           PyStr(<<"r", "o", "t", "a", "t", "e", "(", "4", "5", ")">>)>> >>,
      << <<(<<"c", "l", "o", "s", "e">>), PyInt(1)>> >> }

T1 == Translate(PyInt(10), PyInt(0))
R1 == Rotate(PyInt(90), Origin)
RA == Rotate(PyInt(45), Point(PyInt(10), PyInt(10)))
S1 == Scale(PyInt(2), None)

\* Translate, Rotate (about the origin and about an anchor) and Scale
BasicInputs == {T1, R1, RA, S1}

\* The n of a Repeat and of a Cycle; every n here divides 360 exactly.
CountInputs == {1, 2, 3}

RepeatInputs ==
    {Repeat(PyInt(n), T1) : n \in CountInputs}
        \cup {Repeat(PyInt(2), join(R1, S1)), Repeat(PyInt(2), Repeat(PyInt(2), T1))}

CycleInputs ==
    {Cycle(PyInt(n), Origin, None, None) : n \in CountInputs}
        \cup {Cycle(PyInt(3), Origin, PyInt(2), None),
              Cycle(PyInt(2), Point(PyInt(10), PyInt(10)), PyInt(3), PyInt(45))}

\* One transformation of each of the six classes
VariantInputs ==
    {T1, R1, S1, TransformationList(<<T1, S1>>), Repeat(PyInt(2), T1),
     Cycle(PyInt(2), Origin, None, None)}

\* t1 | t2 for every pair of them, and for every pair of basic ones
JoinedInputs ==
    {Transformation__or__(t[1], t[2]) :
        t \in (VariantInputs \X VariantInputs) \cup (BasicInputs \X BasicInputs)}

TransInputs ==
    BasicInputs \cup RepeatInputs \cup CycleInputs \cup VariantInputs \cup JoinedInputs
        \cup {TransformationList(<<>>)}

\* Values that are neither a Shape nor a Transformation
JunkInputs == {PyInt(5)}

\* (width, height) of a canvas
SizeInputs == {<<PyInt(300), PyInt(300)>>, <<PyInt(301), PyInt(201)>>, <<PyInt(200), PyInt(101)>>}

Refs(h) == {Ref(i) : i \in 1..Len(h)}

\* The value of a run of calls that each return [h, v], for building the
\* shapes a session starts with.
Circle0 == New(<<>>, Circle(Origin, PyInt(100), <<>>))

\* Sessions over the transformation algebra start with a leaf and the leaf
\* translated, or with a leaf, a container of it and the container rotated.
AlgebraHeaps ==
    { BinOr(Circle0.h, Circle0.v, Translate(PyInt(5), PyInt(5))).h,
      LET g == combine(Circle0.h, <<Circle0.v>>)
      IN  BinOr(g.h, g.v, Rotate(PyInt(30), Origin)).h }

\* Sessions over the renderer start with one constructed leaf, or with the
\* tree of a + b + c: a scaled rectangle that has an attribute without a
\* value, and two circles.
RenderHeaps ==
    { New(<<>>, Circle(Origin, PyInt(100), kw)).h : kw \in KwargsInputs }
    \cup { LET r == New(Circle0.h, Rectangle(Origin, PyInt(5), PyInt(200),
                        << <<(<<"s", "t", "r", "o", "k", "e", "_", "w", "i", "d", "t", "h">>),
                             PyInt(2)>>,
                           <<(<<"f", "i", "l", "l">>), None>> >>))
               a == BinOr(r.h, r.v, S1)
               g == BinAdd(a.h, a.v, Circle0.v)
           IN  BinAdd(g.h, g.v, Circle0.v).h }

(***************************************************************************)
(* A session: the heap of the shapes made so far and the last call with    *)
(* its value (or the exception it raised).  One action per public call.    *)
(***************************************************************************)
Call(op, args, r) ==
    /\ nops < MaxOps
    /\ nops' = nops + 1
    /\ heap' = r.h
    /\ last' = [type |-> "call", op |-> op, args |-> args, res |-> r.v]

\* a | b
Or(a, b) == Call("or", <<a, b>>, BinOr(heap, a, b))

\* a + b
Add(a, b) == Call("add", <<a, b>>, BinAdd(heap, a, b))

\* combine(*shapes)
Combine(shapes) == Call("combine", shapes, combine(heap, shapes))

\* shape.as_svg(width, height)
Render(shape, width, height) ==
    Call("render", <<shape, width, height>>, Ret(heap, as_svg(heap, shape.id, width, height)))

NewCircle(center, radius, kwargs) ==
    Call("Circle", <<center, radius, PyDict(kwargs)>>, New(heap, Circle(center, radius, kwargs)))

NewEllipse(center, width, height, kwargs) ==
    Call("Ellipse", <<center, width, height, PyDict(kwargs)>>,
         New(heap, Ellipse(center, width, height, kwargs)))

NewRectangle(center, width, height, kwargs) ==
    Call("Rectangle", <<center, width, height, PyDict(kwargs)>>,
         New(heap, Rectangle(center, width, height, kwargs)))

NewLine(start, end, kwargs) ==
    Call("Line", <<start, end, PyDict(kwargs)>>, New(heap, Line(start, end, kwargs)))

NewGroup(shapes, kwargs) ==
    Call("Group", <<PyList(shapes), PyDict(kwargs)>>, New(heap, Group(PyList(shapes), kwargs)))

\* The operand pairs of |: a shape and a transformation, two transformations,
\* and the pairs that are a misuse.
OrInputs ==
    (Refs(heap) \X TransInputs)
        \cup (VariantInputs \X VariantInputs)
        \cup (BasicInputs \X BasicInputs)
        \cup ((Refs(heap) \cup JunkInputs \cup BasicInputs) \X (Refs(heap) \cup JunkInputs))
        \cup (JunkInputs \X BasicInputs)

AddInputs == (Refs(heap) \cup JunkInputs \cup {T1}) \X (Refs(heap) \cup JunkInputs \cup {T1})

\* Argument tuples of combine: none, one or two values
CombineInputs ==
    LET vals == Refs(heap) \cup JunkInputs
    IN  {<<>>} \cup {<<a>> : a \in vals} \cup (vals \X vals)

Init == heap \in AlgebraHeaps /\ last = None /\ nops = 0

Next ==
    \/ \E ab \in OrInputs : Or(ab[1], ab[2])
    \/ \E ab \in AddInputs : Add(ab[1], ab[2])
    \/ \E shapes \in CombineInputs : Combine(shapes)
    \/ \E shape \in Refs(heap) : Render(shape, PyInt(300), PyInt(300))

Spec == Init /\ [][Next]_vars

\* The transformations of sessions that apply them to shapes: the basic ones,
\* chains of them, and Repeat and Cycle over them.
ApplyInputs ==
    BasicInputs
        \cup {join(T1, RA), join(RA, T1), join(S1, S1), join(join(T1, S1), R1)}
        \cup {Repeat(PyInt(n), T1) : n \in CountInputs}
        \cup {Repeat(PyInt(2), join(R1, S1))}
        \cup CycleInputs

\* Sessions that apply transformations to shapes and combine the results.
NextApply ==
    \/ \E ab \in Refs(heap) \X ApplyInputs : Or(ab[1], ab[2])
    \/ \E ab \in Refs(heap) \X Refs(heap) : Add(ab[1], ab[2])
    \/ \E shapes \in {<<a>> : a \in Refs(heap)} \cup (Refs(heap) \X Refs(heap)) : Combine(shapes)
    \/ \E shape \in Refs(heap) : Render(shape, PyInt(300), PyInt(300))

SpecApply == Init /\ [][NextApply]_vars

\* Sessions that construct shapes with extra attributes and render them.
InitRender == heap \in RenderHeaps /\ last = None /\ nops = 0

NextRender ==
    \/ \E kw \in KwargsInputs : NewCircle(Point(PyInt(10), PyInt(10)), PyInt(50), kw)
    \/ \E kw \in KwargsInputs : NewEllipse(Origin, PyInt(5), PyInt(100), kw)
    \/ \E kw \in KwargsInputs : NewRectangle(Origin, PyInt(5), PyInt(200), kw)
    \/ \E kw \in KwargsInputs : NewLine(Point(PyInt(-100), PyInt(0)), Point(PyInt(100), PyInt(0)), kw)
    \/ \E kw \in KwargsInputs, shapes \in {<<>>} \cup {<<a>> : a \in Refs(heap)} :
            NewGroup(shapes, kw)
    \/ \E ab \in Refs(heap) \X BasicInputs : Or(ab[1], ab[2])
    \/ \E ab \in Refs(heap) \X Refs(heap) : Add(ab[1], ab[2])
    \/ \E shapes \in {<<>>} \cup {<<a>> : a \in Refs(heap)} \cup (Refs(heap) \X Refs(heap)) :
            Combine(shapes)
    \/ \E shape \in Refs(heap), wh \in SizeInputs : Render(shape, wh[1], wh[2])

SpecRender == InitRender /\ [][NextRender]_vars

\* The n of a Repeat and of a Cycle in sessions that make no copy or a few
ZeroCountInputs == {0, 1, 2}

\* The arguments (n, anchor, s, angle) of Cycle in those sessions: with and
\* without an anchor, a scale factor and an explicit angle.
ZeroCycleArgs ==
    {PyInt(n) : n \in ZeroCountInputs} \X {Origin, Point(PyInt(10), PyInt(10))}
        \X {None, PyInt(2)} \X {None, PyInt(45), PyInt(90)}

\* Cycle(n, anchor, s, angle) when the constructor raises
CycleRaises(n, anchor, s, angle) ==
    /\ IsExc(Cycle(n, anchor, s, angle))
    /\ Call("Cycle", <<n, anchor, s, angle>>, Ret(heap, Cycle(n, anchor, s, angle)))

\* Sessions that construct Repeat and Cycle with a small n, zero included,
\* and apply them to a shape.
NextZero ==
    \/ \E shape \in Refs(heap), n \in ZeroCountInputs, t \in BasicInputs :
            Or(shape, Repeat(PyInt(n), t))
    \/ \E shape \in Refs(heap), a \in ZeroCycleArgs :
            /\ ~IsExc(Cycle(a[1], a[2], a[3], a[4]))
            /\ Or(shape, Cycle(a[1], a[2], a[3], a[4]))
    \/ \E a \in ZeroCycleArgs : CycleRaises(a[1], a[2], a[3], a[4])

SpecZero == Init /\ [][NextZero]_vars

(***************************************************************************)
(* Reading rendered text back: lines, indentation, tags and attributes.    *)
(* These definitions observe the output; they model no code.               *)
(***************************************************************************)
\* The first index >= from where s holds c, or Len(s) + 1
Find(s, c, from) ==
    LET hits == {j \in from..Len(s) : s[j] = c}
    IN  IF hits = {} THEN Len(s) + 1 ELSE CHOOSE j \in hits : \A k \in hits : j <= k

\* A sequence given as a function on 1..n, as the tuple of its elements
AsTuple(f) == SubSeq(f, 1, Len(f))

\* The i-th element of a sequence
At(s, i) == Head(SubSeq(s, i, i))

\* The indices of s that satisfy Test, in order
Indices(s, Test(_)) == SelectSeq([i \in 1..Len(s) |-> i], Test)

\* The lines of a text that ends each line with a newline
Lines(text) ==
    LET ends == Indices(text, LAMBDA i : text[i] = "\n")
    IN  AsTuple([k \in 1..Len(ends) |->
                    SubSeq(text, IF k = 1 THEN 1 ELSE ends[k - 1] + 1, ends[k] - 1)])

\* The number of leading spaces
IndentOf(line) ==
    LET others == {i \in 1..Len(line) : line[i] # " "}
    IN  IF others = {} THEN Len(line) ELSE (CHOOSE i \in others : \A k \in others : i <= k) - 1

StartsWith(s, prefix) == Len(s) >= Len(prefix) /\ SubSeq(s, 1, Len(prefix)) = prefix

StartsAt(s, i, w) == i + Len(w) - 1 <= Len(s) /\ SubSeq(s, i, i + Len(w) - 1) = w

Contains(s, w) == \E i \in 1..Len(s) : StartsAt(s, i, w)

\* The character references html.escape writes
Entities ==
    << <<(<<"&", "a", "m", "p", ";">>), "&">>, <<(<<"&", "l", "t", ";">>), "<">>,
       <<(<<"&", "g", "t", ";">>), ">">>, <<(<<"&", "q", "u", "o", "t", ";">>), "\"">>,
       <<(<<"&", "#", "x", "2", "7", ";">>), "'">> >>

\* The literal text of an escaped attribute value: each character reference
\* read as its character, every other character as itself.
Unescape(s) ==
    LET EntityAt(i) ==
            IF s[i] # "&" THEN {}
            ELSE {e \in 1..Len(Entities) : StartsAt(s, i, Entities[e][1])}
        Inside(i) == \E j \in 1..(i - 1) : \E e \in EntityAt(j) : i < j + Len(Entities[e][1])
        starts == Indices(s, LAMBDA i : ~Inside(i))
    IN  AsTuple([k \in 1..Len(starts) |->
                    IF EntityAt(starts[k]) = {} THEN s[starts[k]]
                    ELSE Entities[CHOOSE e \in EntityAt(starts[k]) : TRUE][2]])

\* The attributes name="value" of s from index i on, separated by one space;
\* text that is not of that form is kept as an attribute named "?".
RECURSIVE AttrsFrom(_, _)
AttrsFrom(s, i) ==
    IF i > Len(s) THEN <<>>
    ELSE LET eq == Find(s, "=", i)
             close == Find(s, "\"", eq + 2)
             wellFormed == /\ eq > i /\ eq < Len(s) /\ s[eq + 1] = "\"" /\ close <= Len(s)
                           /\ \A k \in i..(eq - 1) : s[k] \notin {" ", "\"", "<", ">"}
                           /\ close = Len(s) \/ (close + 1 < Len(s) /\ s[close + 1] = " ")
         IN  IF ~wellFormed THEN << <<(<<"?">>), SubSeq(s, i, Len(s))>> >>
             ELSE << <<SubSeq(s, i, eq - 1), Unescape(SubSeq(s, eq + 2, close - 1))>> >>
                      \o AttrsFrom(s, close + 2)

\* A line of markup as [kind, indent, tag, attrs]; kind is "open" (<t ...>),
\* "empty" (<t ... />), "close" (</t>) or "?".
ParseLine(line) ==
    LET k == IndentOf(line)
        body == SubSeq(line, k + 1, Len(line))
        n == Len(body)
        isClose == StartsWith(body, <<"<", "/">>) /\ body[n] = ">"
        isEmpty == n >= 4 /\ SubSeq(body, n - 2, n) = <<" ", "/", ">">>
        isOpen == n >= 2 /\ body[n] = ">"
        inner == IF isEmpty THEN SubSeq(body, 2, n - 3) ELSE SubSeq(body, 2, n - 1)
        sp == Find(inner, " ", 1)
    IN  IF n = 0 \/ body[1] # "<" THEN [kind |-> "?", indent |-> k, tag |-> body, attrs |-> <<>>]
        ELSE IF isClose
        THEN [kind |-> "close", indent |-> k, tag |-> SubSeq(body, 3, n - 1), attrs |-> <<>>]
        ELSE IF isEmpty \/ isOpen
        THEN [kind |-> IF isEmpty THEN "empty" ELSE "open", indent |-> k,
              tag |-> SubSeq(inner, 1, sp - 1), attrs |-> AttrsFrom(inner, sp + 1)]
        ELSE [kind |-> "?", indent |-> k, tag |-> body, attrs |-> <<>>]

Parsed(text) == LET ls == Lines(text) IN AsTuple([i \in 1..Len(ls) |-> ParseLine(ls[i])])

Names(attrs) == AsTuple([i \in 1..Len(attrs) |-> attrs[i][1]])

\* The values of the attributes called name
ValuesOf(attrs, name) ==
    LET hits == SelectSeq(attrs, LAMBDA kv : kv[1] = name)
    IN  AsTuple([i \in 1..Len(hits) |-> hits[i][2]])

\* The element lines (open or empty) of parsed markup, in order
Elements(parsed) == SelectSeq(parsed, LAMBDA l : l.kind \in {"open", "empty"})

\* The last call, when the session made one
Called(op) == last.type = "call" /\ last.op = op

\* The text shape renders to on a default canvas, or the exception
TextOf(h, shape) == as_svg(h, shape.id, PyInt(300), PyInt(300))

\* The markup line of the shape itself in TextOf: the second line
OwnLine(h, shape) == ParseLine(At(Lines(TextOf(h, shape).s), 2))

\* The pieces of s between the occurrences of c
RECURSIVE SplitFrom(_, _, _)
SplitFrom(s, c, from) ==
    LET e == Find(s, c, from)
    IN  IF e > Len(s) THEN <<SubSeq(s, from, Len(s))>>
        ELSE <<SubSeq(s, from, e - 1)>> \o SplitFrom(s, c, e + 1)

Split(s, c) == SplitFrom(s, c, 1)

IsDigits(s) == s # <<>> /\ \A i \in 1..Len(s) : \E k \in 0..9 : Digit(k) = <<s[i]>>

RECURSIVE DigitsValue(_)
DigitsValue(s) ==
    IF s = <<>> THEN 0
    ELSE 10 * DigitsValue(SubSeq(s, 1, Len(s) - 1))
            + (CHOOSE k \in 0..9 : Digit(k) = <<s[Len(s)]>>)

\* A decimal numeral: an optional sign, digits, and optionally a point and digits
IsNumeral(s) ==
    LET u == IF s # <<>> /\ s[1] = "-" THEN Tail(s) ELSE s
        parts == Split(u, ".")
    IN  Len(parts) \in {1, 2} /\ \A i \in 1..Len(parts) : IsDigits(parts[i])

\* The number a numeral denotes
NumeralValue(s) ==
    LET neg == s[1] = "-"
        parts == Split(IF neg THEN Tail(s) ELSE s, ".")
        whole == DigitsValue(parts[1])
        scale == IF Len(parts) = 2 THEN IntPow(10, Len(parts[2])) ELSE 1
        frac == IF Len(parts) = 2 THEN DigitsValue(parts[2]) ELSE 0
    IN  PyFloat((IF neg THEN -1 ELSE 1) * (whole * scale + frac), scale)

\* The instructions name(arg ...) of a transform attribute, separated by one
\* space, each as [name, args]; text not of that form is kept under the name "?".
RECURSIVE InstructionsFrom(_, _)
InstructionsFrom(s, i) ==
    IF i > Len(s) THEN <<>>
    ELSE LET open == Find(s, "(", i)
             close == Find(s, ")", open + 1)
             args == Split(SubSeq(s, open + 1, close - 1), " ")
             wellFormed == /\ open > i /\ close <= Len(s)
                           /\ \A k \in i..(open - 1) : s[k] # " "
                           /\ \A k \in 1..Len(args) : IsNumeral(args[k])
                           /\ close = Len(s) \/ (close + 1 < Len(s) /\ s[close + 1] = " ")
         IN  IF ~wellFormed THEN <<[name |-> <<"?">>, args |-> <<>>]>>
             ELSE <<[name |-> SubSeq(s, i, open - 1),
                     args |-> AsTuple([k \in 1..Len(args) |-> NumeralValue(args[k])])]>>
                      \o InstructionsFrom(s, close + 2)

Instructions(value) == InstructionsFrom(value, 1)

\* The instructions of the one transform attribute of a parsed element;
\* none when the element has no transform attribute.
TransformOf(element) ==
    LET vs == ValuesOf(element.attrs, <<"t", "r", "a", "n", "s", "f", "o", "r", "m">>)
    IN  IF vs = <<>> THEN <<>>
        ELSE IF Len(vs) = 1 THEN Instructions(vs[1])
        ELSE <<[name |-> <<"?">>, args |-> <<>>]>>

\* The basic transformations a transformation applies, in order
RECURSIVE Flat(_)
Flat(t) ==
    IF t = None THEN <<>>
    ELSE IF t.type = "TransformationList"
    THEN Concat([i \in 1..Len(t.transformations) |-> Flat(t.transformations[i])])
    ELSE <<t>>

\* A chain of Translate, Rotate and Scale: one of them, or a non-empty
\* TransformationList of chains; None is the empty chain.
RECURSIVE IsBasicChain(_)
IsBasicChain(t) ==
    IF t = None THEN TRUE
    ELSE IF t.type = "TransformationList"
    THEN /\ t.transformations # <<>>
         /\ \A i \in 1..Len(t.transformations) :
                t.transformations[i] # None /\ IsBasicChain(t.transformations[i])
    ELSE t.type \in {"Translate", "Rotate", "Scale"}

\* What the target format reads from a basic transformation
InstructionOf(t) ==
    CASE t.type = "Translate" ->
            [name |-> <<"t", "r", "a", "n", "s", "l", "a", "t", "e">>, args |-> <<t.x, t.y>>]
      [] t.type = "Rotate" ->
            [name |-> <<"r", "o", "t", "a", "t", "e">>,
             args |-> IF NumEq(t.anchor.x, PyInt(0)) /\ NumEq(t.anchor.y, PyInt(0))
                      THEN <<t.angle>> ELSE <<t.angle, t.anchor.x, t.anchor.y>>]
      [] t.type = "Scale" ->
            [name |-> <<"s", "c", "a", "l", "e">>, args |-> <<t.sx, t.sy>>]

\* Two instruction lists say the same: names agree and arguments are equal numbers
SameInstructions(xs, ys) ==
    /\ Len(xs) = Len(ys)
    /\ \A i \in 1..Len(xs) :
        /\ xs[i].name = ys[i].name
        /\ Len(xs[i].args) = Len(ys[i].args)
        /\ \A k \in 1..Len(xs[i].args) : NumEq(xs[i].args[k], ys[i].args[k])

InstructionsOfChain(ts) == AsTuple([i \in 1..Len(ts) |-> InstructionOf(ts[i])])

\* The last call was shape | transformation
Applied == Called("or") /\ IsShape(last.args[1]) /\ IsTransformation(last.args[2])

\* The object of a shape reference
Obj(h, shape) == h[shape.id]

\* The tree under a shape: its object with every child shape replaced by the
\* tree under it.
RECURSIVE Deep(_, _)
Deep(h, shape) ==
    IF ~IsShape(shape) THEN shape
    ELSE IF h[shape.id].children = None THEN h[shape.id]
    ELSE [h[shape.id] EXCEPT !.children.items =
            [i \in 1..Len(@) |-> Deep(h, h[shape.id].children.items[i])]]

\* A container as combine, + and the higher-order transformations make it:
\* a g element with children and nothing of its own.
IsPlainGroup(o) ==
    /\ o.cls = "Group" /\ o.tag = <<"g">> /\ o.attrs = <<>> /\ o.transform = None
    /\ o.children # None

(***************************************************************************)
(* Claims about the transformation algebra.                                *)
(***************************************************************************)

\* C1: for every shape s and every pair of transformations t1, t2 of the six
\* classes, s | (t1 | t2) and (s | t1) | t2 both succeed and render to the
\* same text.  The code attaches a TransformationList that holds a Repeat or
\* a Cycle to the shape, and rendering it raises AttributeError.
C1_JoinThenApplyIsApplyTwice ==
    \A t1, t2 \in VariantInputs :
        (Applied /\ last.args[2] = Transformation__or__(t1, t2)) =>
            LET one == BinOr(heap, last.args[1], t1)
                two == BinOr(one.h, one.v, t2)
            IN  /\ IsShape(last.res) /\ IsShape(two.v)
                /\ TextOf(heap, last.res).type = "str"
                /\ TextOf(two.h, two.v) = TextOf(heap, last.res)

\* C2: a call that takes shapes as operands changes none of them: every
\* object that existed before the call is the same after it (tag, attributes,
\* children, transform) and renders to the same text, and a shape the call
\* returns is an object that did not exist before.
C2_OperandsUnchanged ==
    [][ /\ Len(heap') >= Len(heap)
        /\ \A i \in 1..Len(heap) :
            /\ heap'[i] = heap[i]
            /\ TextOf(heap', Ref(i)) = TextOf(heap, Ref(i))
        /\ (last'.type = "call" /\ IsShape(last'.res)) =>
                last'.res.id \in (Len(heap) + 1)..Len(heap') ]_vars

\* A transformation was applied to a shape that carried one: the result is a
\* new shape with a longer transform and the operand kept its own.
C2_Witness ==
    /\ Applied /\ IsShape(last.res)
    /\ Obj(heap, last.args[1]).transform # None
    /\ last.res # last.args[1]
    /\ Len(Flat(Obj(heap, last.res).transform)) > Len(Flat(Obj(heap, last.args[1]).transform))

\* C3: applying basic transformations to a shape appends them to the
\* transform the shape has: the rendered node carries exactly one transform
\* attribute, whose value is the as_str of the existing and the new basic
\* transformations joined by single spaces in application order; s | (t1 | t2)
\* renders as (s | t1) | t2 does, and not as s | (t2 | t1) when t1 and t2 differ.
C3_BasicTransformsAccumulate ==
    (/\ Applied
     /\ Flat(last.args[2]) # <<>> /\ IsBasicChain(last.args[2])
     /\ IsBasicChain(Obj(heap, last.args[1]).transform)) =>
        LET s == last.args[1]
            new == Flat(last.args[2])
            chain == Flat(Obj(heap, s).transform) \o new
            text == TextOf(heap, last.res)
            own == ParseLine(At(Lines(text.s), 2))
            one == BinOr(heap, s, new[1])
            two == BinOr(one.h, one.v, new[2])
            swapped == BinOr(heap, s, Transformation__or__(new[2], new[1]))
        IN  /\ IsShape(last.res)
            /\ ValuesOf(own.attrs, <<"t", "r", "a", "n", "s", "f", "o", "r", "m">>)
                    = <<StrJoin(<<" ">>, [i \in 1..Len(chain) |-> as_str(chain[i]).s])>>
            /\ SameInstructions(TransformOf(own), InstructionsOfChain(chain))
            /\ Len(new) = 2 =>
                /\ TextOf(two.h, two.v) = text
                /\ new[1] # new[2] => TextOf(swapped.h, swapped.v) # text

\* A translated shape got t1 | t2 of two different basic transformations.
C3_Witness ==
    /\ Applied /\ IsShape(last.res)
    /\ IsBasicChain(last.args[2]) /\ Len(Flat(last.args[2])) = 2
    /\ Flat(last.args[2])[1] # Flat(last.args[2])[2]
    /\ Len(TransformOf(OwnLine(heap, last.res))) = 3

\* The sum of the x offsets of the translate instructions
RECURSIVE OffsetX(_)
OffsetX(instructions) ==
    IF instructions = <<>> THEN PyInt(0)
    ELSE LET rest == OffsetX(Tail(instructions))
         IN  IF Head(instructions).name = <<"t", "r", "a", "n", "s", "l", "a", "t", "e">>
             THEN Sub(rest, Sub(PyInt(0), Head(instructions).args[1]))
             ELSE rest

\* C4: for n >= 1, s | Repeat(n, t) is a container of exactly n children in
\* generation order: child 0 is s itself and child k is t applied to child
\* k-1; for t = Translate(10, 0) child k is translated by 10k more than s.
C4_RepeatChildren ==
    (Applied /\ last.args[2].type = "Repeat" /\ last.args[2].n.v >= 1) =>
        LET s == last.args[1]
            t == last.args[2].transformation
            n == last.args[2].n.v
            kids == Obj(heap, last.res).children.items
            renders == TextOf(heap, s).type = "str"
            offset == OffsetX(TransformOf(OwnLine(heap, s)))
        IN  /\ IsShape(last.res)
            /\ IsPlainGroup(Obj(heap, last.res))
            /\ Len(kids) = n
            /\ kids[1] = s
            /\ \A k \in 1..(n - 1) : \A step \in {apply(heap, t, kids[k])} :
                    /\ IsShape(kids[k + 1]) /\ kids[k + 1] \notin {kids[j] : j \in 1..k}
                    /\ Deep(heap, kids[k + 1]) = Deep(step.h, step.v)
                    /\ TextOf(heap, kids[k + 1]) = TextOf(step.h, step.v)
                    /\ (t = T1 /\ renders) =>
                        NumEq(OffsetX(TransformOf(OwnLine(heap, kids[k + 1]))),
                              Sub(offset, PyInt(-10 * k)))

\* Repeat(3, Translate(10, 0)) was applied and gave three children.
C4_Witness ==
    /\ Applied /\ last.args[2] = Repeat(PyInt(3), T1) /\ IsShape(last.res)
    /\ Len(Obj(heap, last.res).children.items) = 3

\* C5: for n >= 1, s | Cycle(n, anchor, angle, s_factor) is a container of
\* exactly n children in generation order; child i is s with a rotation by
\* i * angle about anchor added after the transform s has (i * 360/n when no
\* angle was given, so 0 for child 0) and, when a scale factor is given, a
\* scale by s_factor^i added after the rotation.
C5_CycleChildren ==
    (/\ Applied /\ last.args[2].type = "Cycle" /\ last.args[2].n.v >= 1
     /\ IsBasicChain(Obj(heap, last.args[1]).transform)) =>
        LET s == last.args[1]
            c == last.args[2]
            kids == Obj(heap, last.res).children.items
            before == InstructionsOfChain(Flat(Obj(heap, s).transform))
            renders == TextOf(heap, s).type = "str"
            rotation(i) ==
                [name |-> <<"r", "o", "t", "a", "t", "e">>,
                 args |-> <<Mul(PyInt(i), c.angle)>>
                            \o IF PointEq(c.anchor, Origin) THEN <<>>
                               ELSE <<c.anchor.x, c.anchor.y>>]
            scaling(i) ==
                IF c.s = None THEN <<>>
                ELSE <<[name |-> <<"s", "c", "a", "l", "e">>,
                        args |-> <<Pow(c.s, i), Pow(c.s, i)>>]>>
        IN  /\ IsShape(last.res)
            /\ IsPlainGroup(Obj(heap, last.res))
            /\ Len(kids) = c.n.v
            /\ c = Cycle(c.n, c.anchor, c.s, None) => NumEq(c.angle, PyFloat(360, c.n.v))
            /\ \A i \in 0..(c.n.v - 1) :
                /\ IsShape(kids[i + 1]) /\ kids[i + 1] # s
                /\ [Obj(heap, kids[i + 1]) EXCEPT !.transform = None]
                        = [Obj(heap, s) EXCEPT !.transform = None]
                /\ SameInstructions(InstructionsOfChain(Flat(Obj(heap, kids[i + 1]).transform)),
                                    before \o <<rotation(i)>> \o scaling(i))
                /\ renders =>
                        SameInstructions(TransformOf(OwnLine(heap, kids[i + 1])),
                                         before \o <<rotation(i)>> \o scaling(i))
            /\ NumEq(Flat(Obj(heap, kids[1]).transform)[Len(before) + 1].angle, PyInt(0))

\* A Cycle of three copies with a scale factor was applied to a shape.
C5_Witness ==
    /\ Applied /\ last.args[2] = Cycle(PyInt(3), Origin, PyInt(2), None) /\ IsShape(last.res)
    /\ Len(Obj(heap, last.res).children.items) = 3
    /\ Len(TransformOf(OwnLine(heap, Obj(heap, last.res).children.items[3]))) >= 2

(***************************************************************************)
(* Claims about rendering.                                                 *)
(***************************************************************************)
\* The last call rendered a shape and returned text
Rendered == Called("render") /\ last.res.type = "str"

\* A name as it is written in markup
Hyphenated(name) == AsTuple([i \in 1..Len(name) |-> IF name[i] = "_" THEN "-" ELSE name[i]])

\* C6: for every width and height, odd ones included, the first line of the
\* rendered text is an svg element with the attributes width, height, viewBox,
\* fill="none", stroke="black" and xmlns in this order, and the viewBox is the
\* four numbers -width/2, -height/2, width, height.  The code divides with //,
\* so an odd width or height gives a viewport that is off centre by a half.
C6_RootElement ==
    Rendered =>
        \A root \in {ParseLine(At(Lines(last.res.s), 1))} :
            LET w == last.args[2]
                h == last.args[3]
                value(name) == ValuesOf(root.attrs, name)
                box == Split(At(value(<<"v", "i", "e", "w", "B", "o", "x">>), 1), " ")
            IN  /\ root.kind = "open" /\ root.indent = 0 /\ root.tag = <<"s", "v", "g">>
                /\ Names(root.attrs) = <<<<"w", "i", "d", "t", "h">>, <<"h", "e", "i", "g", "h", "t">>, <<"v", "i", "e", "w", "B", "o", "x">>,
                                         <<"f", "i", "l", "l">>, <<"s", "t", "r", "o", "k", "e">>, <<"x", "m", "l", "n", "s">>>>
                /\ value(<<"w", "i", "d", "t", "h">>) = <<StrOf(w)>>
                /\ value(<<"h", "e", "i", "g", "h", "t">>) = <<StrOf(h)>>
                /\ value(<<"f", "i", "l", "l">>) = <<<<"n", "o", "n", "e">>>>
                /\ value(<<"s", "t", "r", "o", "k", "e">>) = <<<<"b", "l", "a", "c", "k">>>>
                /\ value(<<"x", "m", "l", "n", "s">>) = <<<<"h", "t", "t", "p", ":", "/", "/", "w", "w", "w", ".", "w", "3", ".", "o", "r", "g", "/", "2", "0", "0", "0", "/", "s", "v", "g">>>>
                /\ Len(box) = 4 /\ \A k \in 1..4 : IsNumeral(At(box, k))
                /\ NumEq(NumeralValue(At(box, 1)), PyFloat(-w.v, 2))
                /\ NumEq(NumeralValue(At(box, 2)), PyFloat(-h.v, 2))
                /\ NumEq(NumeralValue(At(box, 3)), w)
                /\ NumEq(NumeralValue(At(box, 4)), h)

\* The lines the tree under node is serialized to in depth-first pre-order:
\* for a node with children its opening line, the lines of each child in list
\* order one level deeper, and its closing line; for a node without children
\* one line.  Each line names its node.
RECURSIVE PreOrder(_, _, _)
PreOrder(h, node, depth) ==
    LET o == h[node.id]
        kids == IF o.children = None THEN <<>> ELSE o.children.items
        line(kind) == [kind |-> kind, indent |-> 2 * depth, tag |-> o.tag, node |-> node]
    IN  IF kids = <<>> THEN <<line("empty")>>
        ELSE <<line("open")>>
                \o Concat(AsTuple([i \in 1..Len(kids) |-> PreOrder(h, kids[i], depth + 1)]))
                \o <<line("close")>>

\* The tags still open after the lines from k on, given the tags open before
\* them; a closing line that does not close the innermost open tag, or a line
\* that is not indented two spaces per open tag, leaves the mark "?".
RECURSIVE OpenAfter(_, _, _)
OpenAfter(parsed, k, open) ==
    IF k > Len(parsed) THEN open
    ELSE \* the line and the tags open before it
         LET l == parsed[k]
             depth == Len(open)
         IN  IF l.kind = "open" /\ l.indent = 2 * depth
             THEN OpenAfter(parsed, k + 1, Append(open, l.tag))
             ELSE IF l.kind = "empty" /\ l.indent = 2 * depth
             THEN OpenAfter(parsed, k + 1, open)
             ELSE IF /\ l.kind = "close" /\ depth > 0 /\ l.indent = 2 * (depth - 1)
                     /\ open[depth] = l.tag
             THEN OpenAfter(parsed, k + 1, SubSeq(open, 1, depth - 1))
             ELSE <<(<<"?">>)>>

\* C7: in the rendered text of a shape tree, the line of every node carries
\* exactly the attributes of the node whose value is not None, each once, in
\* insertion order (the transform last), named with hyphens for underscores
\* and holding the text of the value; the name of an attribute whose value is
\* None appears nowhere in the line of its node.
C7_NoneOmittedOthersOnce ==
    Rendered =>
        \A parsed \in {Elements(Parsed(last.res.s))} :
        \A nodes \in {SelectSeq(PreOrder(heap, last.args[1], 1), LAMBDA l : l.kind # "close")} :
        \A lines \in {SelectSeq(Lines(last.res.s),
                                LAMBDA l : ~StartsAt(l, IndentOf(l) + 1, <<"<", "/">>))} :
            /\ Len(parsed) = Len(nodes) + 1
            /\ \A k \in 1..Len(nodes) :
                LET o == Obj(heap, nodes[k].node)
                    given == IF o.transform = None THEN o.attrs
                             ELSE Append(o.attrs, <<<<"t", "r", "a", "n", "s", "f", "o", "r", "m">>, as_str(o.transform)>>)
                    kept == SelectSeq(given, LAMBDA kv : kv[2] # None)
                    absent == SelectSeq(given, LAMBDA kv : kv[2] = None)
                    written == parsed[k + 1].attrs
                IN  /\ Names(written) = AsTuple([i \in 1..Len(kept) |-> Hyphenated(kept[i][1])])
                    /\ \A i \in 1..Len(kept) : written[i][2] = StrOf(kept[i][2])
                    /\ \A i \in 1..Len(absent) :
                        /\ Hyphenated(absent[i][1]) \notin {written[j][1] : j \in 1..Len(written)}
                        /\ ~Contains(lines[k + 1], Hyphenated(absent[i][1]))

\* A tree with a node that has an attribute with value None, an attribute
\* with an underscore in its name and a transform was rendered.
C7_Witness ==
    /\ Rendered
    /\ \E l \in {PreOrder(heap, last.args[1], 1)[k] : k \in 1..Len(PreOrder(heap, last.args[1], 1))} :
        /\ \E i \in 1..Len(Obj(heap, l.node).attrs) : Obj(heap, l.node).attrs[i][2] = None
        /\ \E i \in 1..Len(Obj(heap, l.node).attrs) :
            /\ "_" \in {Obj(heap, l.node).attrs[i][1][j] : j \in 1..Len(Obj(heap, l.node).attrs[i][1])}
            /\ Obj(heap, l.node).attrs[i][2] # None
        /\ Obj(heap, l.node).transform # None

\* The names of the geometry attributes of each class of shape
GeometryNames(cls) ==
    CASE cls = "Circle" -> <<<<"c", "x">>, <<"c", "y">>, <<"r">>>>
      [] cls = "Ellipse" -> <<<<"c", "x">>, <<"c", "y">>, <<"r", "x">>, <<"r", "y">>>>
      [] cls = "Rectangle" -> <<<<"x">>, <<"y">>, <<"w", "i", "d", "t", "h">>, <<"h", "e", "i", "g", "h", "t">>>>
      [] cls = "Line" -> <<<<"x", "1">>, <<"y", "1">>, <<"x", "2">>, <<"y", "2">>>>
      [] cls = "Group" -> <<>>

\* The last call constructed a shape of one of the five classes, a Group
\* from children that render
Constructed ==
    /\ last.type = "call" /\ last.op \in {"Circle", "Ellipse", "Rectangle", "Line", "Group"}
    /\ last.op = "Group" =>
            \A i \in 1..Len(last.args[1].items) :
                TextOf(heap, last.args[1].items[i]).type = "str"

\* C8: every extra named parameter given to a constructor of Circle, Ellipse,
\* Rectangle, Line or Group passes through: construction and rendering
\* succeed, and the line of the node carries the geometry attributes followed
\* by each extra parameter that is not None, named with hyphens and holding
\* the given value.  In the code a parameter named transform is dropped by
\* Shape.__init__, and one named close makes rendering raise TypeError.
C8_ExtraParametersPassThrough ==
    Constructed =>
        LET kwargs == last.args[Len(last.args)].d
            kept == SelectSeq(kwargs, LAMBDA kv : kv[2] # None)
        IN  /\ IsShape(last.res)
            /\ TextOf(heap, last.res).type = "str"
            /\ \A own \in {OwnLine(heap, last.res)} :
                /\ Names(own.attrs) = GeometryNames(last.op)
                        \o AsTuple([i \in 1..Len(kept) |-> Hyphenated(kept[i][1])])
                /\ \A i \in 1..Len(kept) :
                    ValuesOf(own.attrs, Hyphenated(kept[i][1])) = <<StrOf(kept[i][2])>>

\* C9: the rendered text is the depth-first pre-order serialization of the
\* shape tree between the lines of the svg element: a node with children
\* gives its opening line, then all lines of each child in list order two
\* spaces deeper, then its closing line; a node without children gives one
\* self-closing line.  Every closing line closes the innermost open tag, so
\* the tags are balanced and nested, and nested containers stay nested.
C9_PreOrderSerialization ==
    Rendered =>
        \A parsed \in {Parsed(last.res.s)} : \A expected \in {PreOrder(heap, last.args[1], 1)} :
            /\ Len(parsed) = Len(expected) + 2
            /\ parsed[1].kind = "open" /\ parsed[1].tag = <<"s", "v", "g">> /\ parsed[1].indent = 0
            /\ \A k \in 1..Len(expected) :
                /\ parsed[k + 1].kind = expected[k].kind
                /\ parsed[k + 1].indent = expected[k].indent
                /\ parsed[k + 1].tag = expected[k].tag
            /\ parsed[Len(parsed)] = [kind |-> "close", indent |-> 0, tag |-> <<"s", "v", "g">>, attrs |-> <<>>]
            /\ OpenAfter(parsed, 1, <<>>) = <<>>

\* A container of containers was rendered: a node three levels deep lies
\* between the lines of two different tags one level up.
C9_Witness ==
    /\ Rendered
    /\ \E expected \in {PreOrder(heap, last.args[1], 1)} :
        /\ \E k \in 1..Len(expected) : expected[k].indent = 6
        /\ \E j, k \in 1..Len(expected) :
            /\ j < k /\ expected[j].indent = 4 /\ expected[k].indent = 4
            /\ expected[j].tag # expected[k].tag

\* C10: type misuse raises TypeError at the call that commits it and leaves
\* no new shape behind: combine(...) with an argument that is not a Shape,
\* + between a Shape and a value that is not a Shape, t | x for a
\* transformation t and an x that is not a transformation, and x | t for an
\* x that is neither a Shape nor a transformation.  The code's combine stores
\* whatever it is given, and the failure comes at rendering.
C10_MisuseRaisesAtTheCall ==
    LET misuse ==
            \/ Called("combine") /\ \E i \in 1..Len(last.args) : ~IsShape(last.args[i])
            \/ Called("add") /\ (IsShape(last.args[1]) \/ IsShape(last.args[2]))
                             /\ (~IsShape(last.args[1]) \/ ~IsShape(last.args[2]))
            \/ Called("or") /\ IsTransformation(last.args[1])
                            /\ ~IsTransformation(last.args[2])
            \/ Called("or") /\ ~IsShape(last.args[1]) /\ ~IsTransformation(last.args[1])
                            /\ IsTransformation(last.args[2])
    IN  misuse => (last.res = Exc("TypeError") /\ heap \in AlgebraHeaps)

(***************************************************************************)
(* Claims about Repeat and Cycle with n = 0.                               *)
(***************************************************************************)
\* The last call constructed or applied a Repeat or a Cycle with n = 0
ZeroCall ==
    \/ Applied /\ last.args[2].type \in {"Repeat", "Cycle"} /\ last.args[2].n.v = 0
    \/ Called("Cycle") /\ last.args[1].v = 0

\* C11: with n = 0 a Repeat and a Cycle, with or without an explicit angle,
\* are constructed and applied to a shape without an error; the result is a
\* container of no member or of one, and the two transformations follow one
\* policy: applied to the same shape they give the same number of members.
\* In the code Cycle(n=0) without an angle raises ZeroDivisionError in the
\* constructor (360/n), and with an angle it gives an empty container where
\* Repeat(0, t) gives a container of the shape itself.
C11_ZeroCopies ==
    ZeroCall =>
        /\ IsShape(last.res)
        /\ IsPlainGroup(Obj(heap, last.res))
        /\ Len(Obj(heap, last.res).children.items) \in {0, 1}
        /\ \A r \in {BinOr(heap, last.args[1], Repeat(PyInt(0), T1))} :
           \A c \in {BinOr(heap, last.args[1], Cycle(PyInt(0), Origin, None, PyInt(45)))} :
                /\ IsShape(r.v) /\ IsShape(c.v)
                /\ Len(Obj(r.h, r.v).children.items) = Len(Obj(c.h, c.v).children.items)

====
